---- MODULE Spec2Model ----
(***************************************************************************)
(* Model of the lumen-lang migration scripts                               *)
(*   refactor_parsers.py, refactor_parsers_phase2.py, refactor_to_lexeme.py *)
(*                                                                         *)
(* A file's text is a sequence of atoms.  An atom is one piece of text     *)
(* that every regular expression of the scripts either matches as a whole  *)
(* or not at all; the atom's name is the text it stands for.  Whitespace   *)
(* is kept explicit (newline, one space, a four-space indent) because the  *)
(* rules' \s* and \n parts decide what is removed and where text is        *)
(* inserted.                                                               *)
(***************************************************************************)
EXTENDS Integers, Sequences, FiniteSets, TLC

VARIABLES
    content,        \* pass level: the text of the file being migrated
    input,          \* the text the file under study had before the first run
    prev,           \* pass level: the text before the latest run
    runs,           \* pass level: number of runs of the script so far
    script,         \* which of the three scripts is being run
    disk,           \* driver level: path -> text of every file on disk
    pc,             \* driver level: position in main()
    langs,          \* driver level: modules of the list not yet visited
    pending,        \* driver level: rglob results of the module not yet visited
    changed_count,  \* driver level: main()'s changed_count
    total_count,    \* driver level: main()'s total_count
    trace           \* driver level: what the run did (reads, writes, reports)

vars == <<content, input, prev, runs, script, disk, pc, langs, pending,
          changed_count, total_count, trace>>

passVars == <<content, input, prev, runs>>
driverVars == <<disk, pc, langs, pending, changed_count, total_count, trace>>

PARSERS == "refactor_parsers.py"
PHASE2 == "refactor_parsers_phase2.py"
LEXEME == "refactor_to_lexeme.py"
Scripts == {PARSERS, PHASE2, LEXEME}

----------------------------------------------------------------------------
(* Whitespace atoms and generic text helpers                               *)

NL == "\\n"
SP == " "
IND == "    "

IsSpace(t) == t \in {NL, SP, IND}

Has(text, atom) == \E i \in 1..Len(text) : text[i] = atom

HasAny(text, atoms) == \E i \in 1..Len(text) : text[i] \in atoms

Count(text, atom) == Cardinality({i \in 1..Len(text) : text[i] = atom})

\* re.sub of a pattern that matches exactly the atom src, by the atom dst
SubAtom(text, src, dst) ==
    <<>> \o [i \in 1..Len(text) |-> IF text[i] = src THEN dst ELSE text[i]]

\* the text without the positions in del
DeleteAt(text, del) ==
    LET kept == SelectSeq([i \in 1..Len(text) |-> i], LAMBDA i : i \notin del)
    IN  <<>> \o [k \in 1..Len(kept) |-> text[kept[k]]]

\* the text with ins inserted after every position in at
RECURSIVE InsertAfter(_, _, _)
InsertAfter(text, at, ins) ==
    IF at = {} THEN text
    ELSE LET m == CHOOSE x \in at : \A y \in at : y <= x
         IN  InsertAfter(SubSeq(text, 1, m) \o ins \o SubSeq(text, m + 1, Len(text)),
                         at \ {m}, ins)

\* last position of the maximal run of whitespace that starts at i
\* (i - 1 when the run is empty): what a greedy \s* consumes from i
WsEnd(text, i) ==
    CHOOSE j \in (i - 1)..Len(text) :
        /\ \A k \in i..j : IsSpace(text[k])
        /\ (j = Len(text) \/ ~IsSpace(text[j + 1]))

\* first position of the maximal run of whitespace that ends at i
\* (i + 1 when the run is empty): what a leading greedy \s* consumes
WsStart(text, i) ==
    CHOOSE j \in 1..(i + 1) :
        /\ \A k \in j..i : IsSpace(text[k])
        /\ (j = 1 \/ ~IsSpace(text[j - 1]))

NewlinesIn(text, a, b) == {k \in a..b : text[k] = NL}

Max(S) == CHOOSE x \in S : \A y \in S : y <= x

----------------------------------------------------------------------------
(* Atoms: the typed-token constructs the rules look for ...                *)

M_FEATURE == "matches!(parser.peek(), Token::Feature(LPAREN))"
M_FEATURE_GUARD == "matches!(parser.peek(), Token::Feature(k) if *k == LPAREN)"
M_IDENT == "matches!(parser.peek(), Token::Ident(_))"
M_IDENT_WORD == "matches!(parser.peek(), Token::Ident(s) if s == \"print\")"
M_NUMBER == "matches!(parser.peek(), Token::Number(_))"
M_BOOL == "matches!(parser.peek(), Token::Feature(TRUE) | Token::Feature(FALSE))"
M_FEATURE_OR == "matches!(parser.peek(), Token::Feature(k) if *k == RBRACE || *k == EOF)"
WHILE_NOT == "while !"
A_IDENT == "match parser.advance() { Token::Ident(s) => s, _ => unreachable!() }"
A_NUMBER == "match parser.advance() { Token::Number(s) => s, _ => unreachable!() }"
A_NUMBER_OK == "match parser.advance() { Token::Number(s) => Ok(NumberLiteral { value: s }), _ => unreachable!() }"
A_BOOL == "match parser.advance() { Token::Feature(TRUE) => Ok(Box::new(BoolLiteral { value: true })), Token::Feature(FALSE) => Ok(Box::new(BoolLiteral { value: false })), _ => unreachable!() }"
A_EXPECT == "match parser.advance() { Token::Feature(k) if k == LPAREN => {}, _ => return Err(msg) }"
A_EXPECT_DIRECT == "match parser.advance() { Token::Feature(LPAREN) => {}, _ => return Err(msg) }"
P_FEATURE == "parser.peek_n(1).map_or(false, |t| matches!(t, Token::Feature(EQUALS)))"
T_IDENT_FEATURE == "(Token::Ident(_), Some(Token::Feature(EQUALS)))"
ARM_EMPTY == "Token::Feature(LPAREN) => {}"
TOK_FIELD == "tok: Token::Feature(EOF)"

(* ... and the lexeme-style text the rules put in their place              *)

L_EQ == "parser.peek().lexeme == LPAREN"
L_IS_IDENT == "parser.peek().lexeme.chars().next().map_or(false, |c| c.is_alphabetic() || c == '_')"
L_IS_IDENT_BS == "parser.peek().lexeme.chars().next().map_or(false, |c| c.is_alphabetic() || c == \\'_\\')"
L_EQ_WORD == "parser.peek().lexeme == \"print\""
L_IS_DIGIT == "parser.peek().lexeme.chars().next().map_or(false, |c| c.is_ascii_digit())"
L_BOOL == "(parser.peek().lexeme == \"true\" || parser.peek().lexeme == \"false\")"
L_BOOL_UPPER == "(parser.peek().lexeme == \"TRUE\" || parser.peek().lexeme == \"FALSE\")"
L_OR == "(parser.peek().lexeme == RBRACE || parser.peek().lexeme == EOF)"
WHILE_LEX_NE == "while parser.peek().lexeme != RBRACE && parser.peek().lexeme != EOF"
A_LEXEME == "parser.advance().lexeme"
A_LET_S_OK == "let s = parser.advance().lexeme; Ok(NumberLiteral { value: s })"
A_BOOL_FLAG == "{ let value = parser.advance().lexeme == \"true\"; Ok(Box::new(BoolLiteral { value })) }"
A_IF_NE == "if parser.advance().lexeme != LPAREN { return Err(msg); }"
P_LEX == "parser.peek_n(1).map_or(false, |t| t.lexeme == EQUALS)"
T_LEX == "(tok, Some(next)) if tok.lexeme.chars().next().map_or(false, |c| c.is_alphabetic() || c == \\'_\\') && next.lexeme == EQUALS"
ARM_LEX == "_ if parser.peek().lexeme == LPAREN => {}"
TOK_NEW == "tok: Token::new(EOF.to_string())"
A_IF_OPEN == "if parser.advance().lexeme != LPAREN {, _ => return Err(msg) }"
A_EXPECT_PEEK == "match parser.advance() { _ if parser.peek().lexeme == LPAREN => {}, _ => return Err(msg) }"
A_LET_LEXEME == "let lexeme = parser.advance().lexeme; _ => unreachable!() }"

(* Atoms of the registration function, the import and the comments         *)

IMPORT == "use crate::kernel::lexer::Token;"
REGSIG == "pub fn register(reg: &mut Registry)"
LB == "{"
RB == "}"
MARK == "// No token registration needed - kernel handles all segmentation"
REGCMT == "// Register tokens"
DEFCMT == "// Token definitions"
PUBCONST == "pub const"
KW == "reg.tokens.add_keyword(\"let\");"
SC == "reg.tokens.add_single_char('+');"
TC == "reg.tokens.add_two_char(\"==\");"
KW_TOKEN == "reg.tokens.add_keyword(Token::LET);"
KW_NESTED == "reg.tokens.add_keyword(kw(\"let\"));"
KW_NOSEMI == "reg.tokens.add_keyword(\"let\")"
CODE == "foo();"
TOKREF == "Token::Str(s) => s.clone(),"
TYREF == "tok: &Token,"

\* atoms whose text contains "Token::"
TokenRefAtoms ==
    {M_FEATURE, M_FEATURE_GUARD, M_IDENT, M_IDENT_WORD, M_NUMBER, M_BOOL,
     M_FEATURE_OR, A_IDENT, A_NUMBER, A_NUMBER_OK, A_BOOL, A_EXPECT,
     A_EXPECT_DIRECT, P_FEATURE, T_IDENT_FEATURE, ARM_EMPTY, TOK_FIELD,
     TOK_NEW, KW_TOKEN, TOKREF}

\* atoms whose text names the Token type (with or without a following "::"),
\* the import itself left out
TokenTypeAtoms == TokenRefAtoms \cup {TYREF}

\* atoms whose text contains "reg.tokens."
RegTokensAtoms == {KW, SC, TC, KW_TOKEN, KW_NESTED, KW_NOSEMI}

----------------------------------------------------------------------------
(* refactor_parsers.py: refactor_content                                   *)

\* rules 1-11: each pattern matches one construct as a whole
PeekRules(c) ==
    LET r1 == SubAtom(c, M_FEATURE, L_EQ)
        r2 == SubAtom(r1, M_FEATURE_GUARD, L_EQ)
        r3 == SubAtom(r2, M_IDENT, L_IS_IDENT_BS)
        r4 == SubAtom(r3, M_IDENT_WORD, L_EQ_WORD)
        r5 == SubAtom(r4, M_NUMBER, L_IS_DIGIT)
        r6 == SubAtom(r5, M_BOOL, L_BOOL)
    IN  SubAtom(r6, M_BOOL, L_BOOL_UPPER)

AdvanceRules(c) ==
    LET r7a == SubAtom(c, A_IDENT, A_LEXEME)
        r7b == SubAtom(r7a, A_NUMBER, A_LEXEME)
        r8 == SubAtom(r7b, A_BOOL, A_BOOL_FLAG)
        r9 == SubAtom(r8, A_EXPECT, A_IF_NE)
        r10 == SubAtom(r9, P_FEATURE, P_LEX)
    IN  SubAtom(r10, T_IDENT_FEATURE, T_LEX)

\* rule 12: the import goes when the buffer holds no "Token::"
RemoveImport(c) ==
    IF ~HasAny(c, TokenRefAtoms) /\ Has(c, IMPORT)
    THEN LET hits == {i \in 1..(Len(c) - 1) : c[i] = IMPORT /\ c[i + 1] = NL}
         IN  DeleteAt(c, hits \cup {i + 1 : i \in hits})
    ELSE c

\* one re.sub of rule 13: \s*<call>\n with the call one of calls
RemoveCall(c, calls) ==
    LET hits == {i \in 1..(Len(c) - 1) : c[i] \in calls /\ c[i + 1] = NL}
        lead == {j \in 1..Len(c) : \E i \in hits : j < i /\ j >= WsStart(c, i - 1)}
    IN  DeleteAt(c, hits \cup {i + 1 : i \in hits} \cup lead)

\* rule 13
RemoveRegistration(c) ==
    RemoveCall(RemoveCall(RemoveCall(c, {KW, KW_TOKEN}), {SC}), {TC})

\* the end of the match of  pub fn register\(reg: &mut Registry\)\s*\{\s*\n
\* that starts at i: the last newline of the whitespace after the brace
\* (0 when no match starts at i)
RegisterAnchorEnd(c, i) ==
    IF c[i] # REGSIG THEN 0
    ELSE LET b == WsEnd(c, i + 1) + 1
         IN  IF b > Len(c) \/ c[b] # LB THEN 0
             ELSE LET nls == NewlinesIn(c, b + 1, WsEnd(c, b + 1))
                  IN  IF nls = {} THEN 0 ELSE Max(nls)

\* rule 14
AddMarker(c, original) ==
    IF Has(c, REGSIG) /\ original # c /\ ~Has(c, MARK)
    THEN LET starts == {i \in 1..Len(c) : RegisterAnchorEnd(c, i) # 0}
         IN  IF starts = {} THEN c
             ELSE LET first == CHOOSE i \in starts : \A j \in starts : i <= j
                  IN  InsertAfter(c, {RegisterAnchorEnd(c, first)}, <<IND, MARK, NL>>)
    ELSE c

\* rule 15, first re.sub:  // Register tokens\s*\n\s*\n
CleanRegisterComment(c) ==
    LET hits == {i \in 1..Len(c) :
                    c[i] = REGCMT /\ Cardinality(NewlinesIn(c, i + 1, WsEnd(c, i + 1))) >= 2}
        del == {j \in 1..Len(c) : \E i \in hits :
                    j >= i /\ j <= Max(NewlinesIn(c, i + 1, WsEnd(c, i + 1)))}
    IN  DeleteAt(c, del)

\* rule 15, second re.sub:  // Token definitions\s*\n\s*\n\s*pub const
CleanDefinitionsComment(c) ==
    LET hits == {i \in 1..Len(c) :
                    /\ c[i] = DEFCMT
                    /\ Cardinality(NewlinesIn(c, i + 1, WsEnd(c, i + 1))) >= 2
                    /\ WsEnd(c, i + 1) < Len(c)
                    /\ c[WsEnd(c, i + 1) + 1] = PUBCONST}
        del == {j \in 1..Len(c) : \E i \in hits : j >= i /\ j <= WsEnd(c, i + 1)}
    IN  DeleteAt(c, del)

refactor_content(c) ==
    LET rewritten == AdvanceRules(PeekRules(c))
        cleaned == RemoveRegistration(RemoveImport(rewritten))
    IN  CleanDefinitionsComment(CleanRegisterComment(AddMarker(cleaned, c)))

----------------------------------------------------------------------------
(* refactor_parsers_phase2.py: refactor_content_phase2                     *)

\* rule 5: "while !" directly followed by the two-constant guard
SubWhileNot(c) ==
    LET hits == {i \in 1..(Len(c) - 1) : c[i] = WHILE_NOT /\ c[i + 1] = M_FEATURE_OR}
    IN  DeleteAt(<<>> \o [i \in 1..Len(c) |-> IF i \in hits THEN WHILE_LEX_NE ELSE c[i]],
                 {i + 1 : i \in hits})

\* rule 6: (\s+)Token::Feature\(X\)\s*=>\s*\{\} needs whitespace before the arm
SubArm(c) ==
    <<>> \o [i \in 1..Len(c) |->
                IF c[i] = ARM_EMPTY /\ i > 1 /\ IsSpace(c[i - 1]) THEN ARM_LEX ELSE c[i]]

refactor_content_phase2(c) ==
    LET r1 == SubAtom(c, A_NUMBER_OK, A_LET_S_OK)
        r2 == SubAtom(r1, A_IDENT, A_LEXEME)
        r3 == SubAtom(r2, A_EXPECT_DIRECT, A_IF_NE)
        r4 == SubAtom(r3, M_FEATURE_OR, L_OR)
        r5 == SubWhileNot(r4)
        r6 == SubArm(r5)
    IN  SubAtom(r6, TOK_FIELD, TOK_NEW)

----------------------------------------------------------------------------
(* refactor_to_lexeme.py: the text part of process_file                    *)

\* the callback of pattern 6, applied to the block the pattern matched
refactor_match_advance(atom) ==
    IF atom = A_EXPECT THEN A_EXPECT_PEEK ELSE atom

refactor_token_matches(c) ==
    LET p1 == SubAtom(c, M_FEATURE, L_EQ)
        p2 == SubAtom(p1, M_FEATURE_GUARD, L_EQ)
        p3 == SubAtom(p2, M_IDENT, L_IS_IDENT)
        p4 == SubAtom(p3, M_IDENT_WORD, L_EQ_WORD)
        p5 == SubAtom(p4, M_NUMBER, L_IS_DIGIT)
        p6 == <<>> \o [i \in 1..Len(p5) |-> refactor_match_advance(p5[i])]
        p7 == SubAtom(SubAtom(p6, A_IDENT, A_LET_LEXEME), A_NUMBER, A_LET_LEXEME)
        p8 == SubAtom(p7, A_EXPECT, A_IF_OPEN)
    IN  SubAtom(p8, P_FEATURE, P_LEX)

\* here the call's semicolon is optional
remove_token_registration(c) ==
    RemoveCall(RemoveCall(RemoveCall(c, {KW, KW_TOKEN, KW_NOSEMI}), {SC}), {TC})

\* the end of the match of  (pub fn register\(reg: &mut Registry\) \{\s*\n)
\* that starts at i (0 when none does)
LexemeAnchorEnd(c, i) ==
    IF i + 2 > Len(c) \/ c[i] # REGSIG \/ c[i + 1] # SP \/ c[i + 2] # LB THEN 0
    ELSE LET nls == NewlinesIn(c, i + 3, WsEnd(c, i + 3))
         IN  IF nls = {} THEN 0 ELSE Max(nls)

lexeme_content(original) ==
    LET c == remove_token_registration(refactor_token_matches(original))
    IN  IF Has(c, REGSIG) /\ HasAny(original, RegTokensAtoms)
        THEN InsertAfter(c, {LexemeAnchorEnd(c, i) : i \in 1..Len(c)} \ {0},
                         <<IND, MARK, NL>>)
        ELSE c

----------------------------------------------------------------------------
(* refactor_to_lexeme.py: LANG_LEXEMES and the text part of                *)
(* update_dispatcher                                                       *)

ANCHOR == "pub fn register_all(registry: &mut Registry) {"
ANCHOR_NOARGS == "pub fn register_all() {"
BLOCK_CMT1 == "// Register multi-character lexemes for maximal-munch segmentation"
BLOCK_CMT2 == "// The kernel lexer will use these for pure lossless ASCII segmentation"
SET_OPEN == "registry.tokens.set_multichar_lexemes(vec!["
SET_CLOSE == "]);"
DQ == "\""
COMMA == ","

LexemeModules ==
    <<"mini_rust", "mini_c", "mini_php", "mini_sh", "mini_apple_basic", "mini_apple_pascal">>

LANG_LEXEMES ==
    [mini_rust |-> <<"==", "!=", "<=", ">=", "&&", "||", ":=",
                     "let", "if", "else", "while", "break", "continue", "print", "true", "false">>,
     mini_c |-> <<"==", "!=", "<=", ">=",
                  "and", "or", "not", "if", "else", "while", "break", "continue", "printf", "true", "false">>,
     mini_php |-> <<"==", "!=", "<=", ">=", "===", "!==",
                    "and", "or", "not", "if", "else", "while", "break", "continue", "echo", "true", "false">>,
     mini_sh |-> <<"==", "!=", "<=", ">=",
                   "and", "or", "not", "if", "else", "while", "break", "continue", "echo", "true", "false">>,
     mini_apple_basic |-> <<"==", "!=", "<=", ">=",
                            "AND", "OR", "NOT", "IF", "ELSE", "WHILE", "BREAK", "CONTINUE", "PRINT", "TRUE", "FALSE">>,
     mini_apple_pascal |-> <<"==", "!=", "<=", ">=", ":=",
                             "and", "or", "not", "if", "else", "while", "break", "continue", "writeln", "true", "false">>]

\* LANG_LEXEMES.get(lang_name, [])
LexemesOf(lang) ==
    IF lang \in DOMAIN LANG_LEXEMES THEN LANG_LEXEMES[lang] ELSE <<>>

\* sep.join(items), items a sequence of texts
RECURSIVE Join(_, _)
Join(sep, items) ==
    IF items = <<>> THEN <<>>
    ELSE IF Len(items) = 1 THEN items[1]
    ELSE items[1] \o sep \o Join(sep, Tail(items))

\* f'"{lex}"'
Quoted(lex) == <<DQ, lex, DQ>>

\* a variant that walks the table from its last element to its first
lexeme_list_reversed(lang) ==
    Join(<<COMMA, NL, IND, IND>>,
         [k \in 1..Len(LexemesOf(lang)) |->
            Quoted(LexemesOf(lang)[Len(LexemesOf(lang)) - k + 1])])

lexeme_list(lang) ==
    Join(<<COMMA, NL, IND, IND>>,
         [k \in 1..Len(LexemesOf(lang)) |-> Quoted(LexemesOf(lang)[k])])

registration(lang) ==
    <<IND, BLOCK_CMT1, NL, IND, BLOCK_CMT2, NL, IND, SET_OPEN, NL, IND, IND>>
        \o lexeme_list(lang) \o <<COMMA, NL, IND, SET_CLOSE, NL, NL>>

\* the end of the match of  (pub fn register_all\([^)]+\) \{\s*\n)  that
\* starts at i: the last newline of the whitespace after the brace (0 when
\* no match starts at i)
DispatcherAnchorEnd(c, i) ==
    IF c[i] # ANCHOR THEN 0
    ELSE LET nls == NewlinesIn(c, i + 1, WsEnd(c, i + 1))
         IN  IF nls = {} THEN 0 ELSE Max(nls)

\* the re.sub of update_dispatcher: the block goes in after every match
AugmentDispatcher(c, lang) ==
    InsertAfter(c, {DispatcherAnchorEnd(c, i) : i \in 1..Len(c)} \ {0}, registration(lang))

----------------------------------------------------------------------------
(* Pass level: one file's text under successive runs of one script          *)

MaxBody == 3
MaxRuns == 2

RECURSIVE Flatten(_)
Flatten(lines) ==
    IF lines = <<>> THEN <<>> ELSE Head(lines) \o Flatten(Tail(lines))

SeqsUpTo(S, n) == UNION {[1..k -> S] : k \in 0..n}

\* the lines a register function's body is drawn from
BodyLines ==
    {<<IND, KW, NL>>, <<IND, SC, NL>>, <<IND, TC, NL>>, <<IND, KW_TOKEN, NL>>,
     <<IND, KW_NESTED, NL>>, <<IND, CODE, NL>>, <<IND, MARK, NL>>}

\* the code a file may hold before its register function
TopLines ==
    {<<>>} \cup {<<IND, a, NL>> : a \in {M_FEATURE, A_IDENT, ARM_EMPTY, TOKREF, TYREF, CODE}}

Preludes == {<<>>, <<IMPORT, NL>>}

RegisterFunctions ==
    {<<>>} \cup {<<REGSIG, SP, LB, NL>> \o Flatten(b) \o <<RB, NL>> : b \in SeqsUpTo(BodyLines, MaxBody)}

PassInputs ==
    {p \o t \o f : p \in Preludes, t \in TopLines, f \in RegisterFunctions}

\* what one run of the script makes of a file's text
Transform(s, c) ==
    CASE s = PARSERS -> refactor_content(c)
      [] s = PHASE2 -> refactor_content_phase2(c)
      [] s = LEXEME -> lexeme_content(c)

DriverIdle ==
    /\ disk = <<>>
    /\ pc = "idle"
    /\ langs = <<>>
    /\ pending = {}
    /\ changed_count = 0
    /\ total_count = 0
    /\ trace = <<>>

InitPass ==
    /\ content \in PassInputs
    /\ input = content
    /\ prev = content
    /\ runs = 0
    /\ script \in Scripts
    /\ DriverIdle

RunPass(s) ==
    /\ script = s
    /\ runs < MaxRuns
    /\ prev' = content
    /\ content' = Transform(s, content)
    /\ runs' = runs + 1
    /\ UNCHANGED <<input, script>>
    /\ UNCHANGED driverVars

RunParsers == RunPass(PARSERS)

RunPhase2 == RunPass(PHASE2)

RunLexeme == RunPass(LEXEME)

NextPass == RunParsers \/ RunPhase2 \/ RunLexeme

SpecPass == InitPass /\ [][NextPass]_vars

----------------------------------------------------------------------------
(* The tree on disk.  A path is a sequence of segments below the base      *)
(* directory; a segment is the sequence of the pieces of its name, so that *)
(* "contains the text examples" and "is named examples" differ.            *)

Base == << <<"home">>, <<"user">>, <<"lumen-lang">> >>

\* base / f"src_{lang}"
ModuleRoot(lang) == <<"src_", lang>>

\* lang_path / f"src_{lang_name}.rs"
DispatcherPath(lang) == <<ModuleRoot(lang), <<"src_", lang, ".rs">>>>

\* a variant that looks at the first directory below the module root only
str_has_examples_top(path) ==
    Len(path) >= 2 /\ \E j \in 1..Len(path[2]) : path[2][j] = "examples"

\* 'examples' in str(path)
str_has_examples(path) ==
    \E i \in 1..Len(Base \o path) :
        \E j \in 1..Len((Base \o path)[i]) : (Base \o path)[i][j] = "examples"

\* lang_path.rglob('*.rs') over the files of the tree
rglob_rs(files, lang) ==
    {f \in DOMAIN files :
        /\ Len(f) >= 2
        /\ f[1] = ModuleRoot(lang)
        /\ f[Len(f)][Len(f[Len(f)])] = ".rs"}

\* the module list of each script's main()
ModuleList(s) ==
    CASE s = PARSERS -> <<"mini_rust", "mini_c", "mini_php", "mini_sh",
                          "mini_apple_basic", "mini_apple_pascal">>
      [] s = PHASE2 -> <<"lumen", "mini_rust", "mini_c", "mini_php", "mini_sh",
                         "mini_apple_basic", "mini_apple_pascal">>
      [] s = LEXEME -> LexemeModules

\* how a file answers read_text and write_text: "rw" both succeed, "r" the
\* write raises, "none" the read raises
Modes == {"rw", "r", "none"}

EmptyFn == [x \in {} |-> x]

NoTrace ==
    [seen |-> EmptyFn,      \* process_file: path -> text it read
     wrote |-> EmptyFn,     \* process_file: path -> text it wrote
     reported |-> {},       \* process_file: paths reported as changed
     failed |-> {},         \* process_file: paths reported as failed
     handed |-> {},         \* paths passed to process_file
     counted |-> {},        \* paths counted in total_count
     reads |-> {},          \* every path read, by anyone
     writes |-> {},         \* every path written, by anyone
     dispatched |-> {},     \* modules reported as "Updated dispatcher"
     summary |-> FALSE]     \* the final summary was printed

----------------------------------------------------------------------------
(* process_file of the three scripts, as the outcome of one call           *)

\* a variant that writes the transformed text back without comparing it
process_file_rewrites(s, f, files) ==
    LET text == files[f].text
        new == Transform(s, text)
        caught == s # LEXEME
    IN  IF s = LEXEME /\ str_has_examples(f)
        THEN [result |-> "skipped", read |-> FALSE, written |-> FALSE, text |-> text]
        ELSE IF files[f].mode = "none"
        THEN [result |-> IF caught THEN "failed" ELSE "raised",
              read |-> FALSE, written |-> FALSE, text |-> text]
        ELSE IF files[f].mode = "r"
        THEN [result |-> IF caught THEN "failed" ELSE "raised",
              read |-> TRUE, written |-> FALSE, text |-> text]
        ELSE [result |-> "changed", read |-> TRUE, written |-> TRUE, text |-> new]

\* s: script, f: path, files: the tree.  result is what the caller sees:
\* "changed" (True), "unchanged"/"failed" (False), "skipped" (the early
\* return of refactor_to_lexeme.py), "raised" (an exception leaves the call)
process_file(s, f, files) ==
    LET text == files[f].text
        new == Transform(s, text)
        caught == s # LEXEME
    IN  IF s = LEXEME /\ str_has_examples(f)
        THEN [result |-> "skipped", read |-> FALSE, written |-> FALSE, text |-> text]
        ELSE IF files[f].mode = "none"
        THEN [result |-> IF caught THEN "failed" ELSE "raised",
              read |-> FALSE, written |-> FALSE, text |-> text]
        ELSE IF new = text
        THEN [result |-> "unchanged", read |-> TRUE, written |-> FALSE, text |-> text]
        ELSE IF files[f].mode = "r"
        THEN [result |-> IF caught THEN "failed" ELSE "raised",
              read |-> TRUE, written |-> FALSE, text |-> text]
        ELSE [result |-> "changed", read |-> TRUE, written |-> TRUE, text |-> new]

\* the trace after a call of process_file on f with outcome o
Logged(t, f, files, o) ==
    [t EXCEPT
        !.handed = @ \cup {f},
        !.seen = IF o.read THEN (f :> files[f].text) @@ @ ELSE @,
        !.reads = IF o.read THEN @ \cup {f} ELSE @,
        !.wrote = IF o.written THEN (f :> o.text) @@ @ ELSE @,
        !.writes = IF o.written THEN @ \cup {f} ELSE @,
        !.reported = IF o.result = "changed" THEN @ \cup {f} ELSE @,
        !.failed = IF o.result = "failed" THEN @ \cup {f} ELSE @]

\* update_dispatcher(lang_path, lang_name) on the tree: what it does to the
\* dispatch file and what leaves the call
update_dispatcher(lang, files) ==
    LET f == DispatcherPath(lang)
    IN  IF f \notin DOMAIN files
        THEN [result |-> "absent", read |-> FALSE, written |-> FALSE, text |-> <<>>]
        ELSE IF files[f].mode = "none"
        THEN [result |-> "raised", read |-> FALSE, written |-> FALSE, text |-> files[f].text]
        ELSE IF files[f].mode = "r"
        THEN [result |-> "raised", read |-> TRUE, written |-> FALSE, text |-> files[f].text]
        ELSE [result |-> "updated", read |-> TRUE, written |-> TRUE,
              text |-> AugmentDispatcher(files[f].text, lang)]

DispatchLogged(t, lang, o) ==
    [t EXCEPT
        !.reads = IF o.read THEN @ \cup {DispatcherPath(lang)} ELSE @,
        !.writes = IF o.written THEN @ \cup {DispatcherPath(lang)} ELSE @,
        !.dispatched = IF o.result = "updated" THEN @ \cup {lang} ELSE @]

Written(files, f, o) ==
    IF o.written THEN [files EXCEPT ![f].text = o.text] ELSE files

----------------------------------------------------------------------------
(* Driver level: main() of each script over a tree                         *)

MaxFiles == 3
MaxFaults == 1

\* the files a tree is drawn from, each with its text
Pool ==
    (DispatcherPath("mini_rust") :> <<ANCHOR, NL, IND, CODE, NL, RB, NL>>)
    @@ (<<ModuleRoot("mini_rust"), <<"parser">>, <<"a", ".rs">>>> :> <<IND, M_FEATURE, NL>>)
    @@ (<<ModuleRoot("mini_rust"), <<"examples">>, <<"demo", ".rs">>>> :> <<IND, A_IDENT, NL>>)
    @@ (<<ModuleRoot("mini_rust"), <<"parser">>, <<"examples">>, <<"deep", ".rs">>>> :> <<IND, A_IDENT, NL>>)
    @@ (<<ModuleRoot("mini_rust"), <<"examples", "_util", ".rs">>>> :> <<IND, A_IDENT, NL>>)
    @@ (<<ModuleRoot("mini_rust"), <<"my_", "examples", "_old">>, <<"b", ".rs">>>> :> <<IND, CODE, NL>>)
    @@ (<<ModuleRoot("mini_rust"), <<"notes", ".txt">>>> :> <<IND, A_IDENT, NL>>)
    @@ (DispatcherPath("mini_c") :> <<ANCHOR_NOARGS, NL, RB, NL>>)
    @@ (<<ModuleRoot("lumen"), <<"core", ".rs">>>> :> <<IND, A_IDENT, NL>>)

PassIdle ==
    /\ content = <<>>
    /\ input = <<>>
    /\ prev = <<>>
    /\ runs = 0

InitDriver ==
    /\ script \in Scripts
    /\ \E chosen \in {c \in SUBSET DOMAIN Pool : Cardinality(c) <= MaxFiles} :
        \E bad \in {b \in SUBSET chosen : Cardinality(b) <= MaxFaults} :
            \E m \in [bad -> {"r", "none"}] :
                disk = [roots |-> {f[1][2] : f \in chosen},
                        files |-> [f \in chosen |->
                                     [text |-> Pool[f],
                                      mode |-> IF f \in bad THEN m[f] ELSE "rw"]]]
    /\ pc = "modules"
    /\ langs = ModuleList(script)
    /\ pending = {}
    /\ changed_count = 0
    /\ total_count = 0
    /\ trace = NoTrace
    /\ PassIdle

\* if not lang_path.exists(): continue
SkipModule ==
    /\ pc = "modules"
    /\ langs # <<>>
    /\ Head(langs) \notin disk.roots
    /\ langs' = Tail(langs)
    /\ UNCHANGED <<disk, script, pc, pending, changed_count, total_count, trace>>
    /\ UNCHANGED passVars

\* refactor_parsers.py, refactor_parsers_phase2.py: the module's header is
\* printed and the rglob loop starts
EnterModule ==
    /\ pc = "modules"
    /\ script # LEXEME
    /\ langs # <<>>
    /\ Head(langs) \in disk.roots
    /\ pending' = rglob_rs(disk.files, Head(langs))
    /\ pc' = "files"
    /\ UNCHANGED <<disk, script, langs, changed_count, total_count, trace>>
    /\ UNCHANGED passVars

\* refactor_to_lexeme.py: update_dispatcher runs, then the rglob loop starts
EnterModuleLexeme ==
    /\ pc = "modules"
    /\ script = LEXEME
    /\ langs # <<>>
    /\ Head(langs) \in disk.roots
    /\ LET o == update_dispatcher(Head(langs), disk.files)
           after == Written(disk.files, DispatcherPath(Head(langs)), o)
       IN  /\ disk' = [disk EXCEPT !.files = after]
           /\ trace' = DispatchLogged(trace, Head(langs), o)
           /\ IF o.result = "raised"
              THEN pc' = "raised" /\ pending' = pending
              ELSE pc' = "files" /\ pending' = rglob_rs(after, Head(langs))
    /\ UNCHANGED <<script, langs, changed_count, total_count>>
    /\ UNCHANGED passVars

\* one iteration of the rglob loop of refactor_parsers.py and
\* refactor_parsers_phase2.py
VisitFile ==
    /\ pc = "files"
    /\ script # LEXEME
    /\ \E f \in pending :
        /\ pending' = pending \ {f}
        /\ IF str_has_examples(f)
           THEN UNCHANGED <<disk, changed_count, total_count, trace>>
           ELSE LET o == process_file(script, f, disk.files)
                IN  /\ total_count' = total_count + 1
                    /\ changed_count' = IF o.result = "changed"
                                        THEN changed_count + 1 ELSE changed_count
                    /\ disk' = [disk EXCEPT !.files = Written(disk.files, f, o)]
                    /\ trace' = [Logged(trace, f, disk.files, o) EXCEPT
                                    !.counted = @ \cup {f}]
    /\ UNCHANGED <<script, pc, langs>>
    /\ UNCHANGED passVars

\* one iteration of the rglob loop of refactor_to_lexeme.py
VisitFileLexeme ==
    /\ pc = "files"
    /\ script = LEXEME
    /\ \E f \in pending :
        LET o == process_file(script, f, disk.files)
        IN  /\ pending' = pending \ {f}
            /\ disk' = [disk EXCEPT !.files = Written(disk.files, f, o)]
            /\ trace' = Logged(trace, f, disk.files, o)
            /\ pc' = IF o.result = "raised" THEN "raised" ELSE "files"
    /\ UNCHANGED <<script, langs, changed_count, total_count>>
    /\ UNCHANGED passVars

\* the rglob loop is exhausted
LeaveModule ==
    /\ pc = "files"
    /\ pending = {}
    /\ langs' = Tail(langs)
    /\ pc' = "modules"
    /\ UNCHANGED <<disk, script, pending, changed_count, total_count, trace>>
    /\ UNCHANGED passVars

\* the module list is exhausted: the summary is printed by the two scripts
\* that count
Finish ==
    /\ pc = "modules"
    /\ langs = <<>>
    /\ pc' = "done"
    /\ trace' = [trace EXCEPT !.summary = (script # LEXEME)]
    /\ UNCHANGED <<disk, script, langs, pending, changed_count, total_count>>
    /\ UNCHANGED passVars

NextDriver ==
    \/ SkipModule
    \/ EnterModule
    \/ EnterModuleLexeme
    \/ VisitFile
    \/ VisitFileLexeme
    \/ LeaveModule
    \/ Finish

SpecDriver == InitDriver /\ [][NextDriver]_vars

----------------------------------------------------------------------------
(* Dispatcher level: one call of update_dispatcher on a dispatch file      *)

MaxDispLines == 3

DispLines ==
    {<<ANCHOR, NL>>, <<ANCHOR_NOARGS, NL>>, <<NL>>, <<IND, NL>>, <<IND, CODE, NL>>, <<RB, NL>>}

DispatcherInputs == {Flatten(b) : b \in SeqsUpTo(DispLines, MaxDispLines)}

InitDispatcher ==
    /\ script = LEXEME
    /\ \E lang \in {LexemeModules[k] : k \in 1..Len(LexemeModules)} :
        /\ langs = <<lang>>
        /\ \/ disk = [roots |-> {lang}, files |-> EmptyFn] /\ input = <<>>
           \/ \E t \in DispatcherInputs, m \in Modes :
                /\ disk = [roots |-> {lang},
                           files |-> (DispatcherPath(lang) :> [text |-> t, mode |-> m])]
                /\ input = t
    /\ pc = "dispatch"
    /\ pending = {}
    /\ changed_count = 0
    /\ total_count = 0
    /\ trace = NoTrace
    /\ content = <<>>
    /\ prev = <<>>
    /\ runs = 0

Dispatch ==
    /\ pc = "dispatch"
    /\ LET o == update_dispatcher(Head(langs), disk.files)
       IN  /\ disk' = [disk EXCEPT !.files = Written(disk.files, DispatcherPath(Head(langs)), o)]
           /\ trace' = DispatchLogged(trace, Head(langs), o)
           /\ pc' = IF o.result = "raised" THEN "raised" ELSE "dispatched"
    /\ UNCHANGED <<script, langs, pending, changed_count, total_count>>
    /\ UNCHANGED passVars

NextDispatcher == Dispatch

SpecDispatcher == InitDispatcher /\ [][NextDispatcher]_vars

----------------------------------------------------------------------------
(* Claims at the pass level                                                *)

\* C1: the rule catalog is idempotent: a second application of
\* refactor_content to its own output changes nothing.
C1_Idempotent ==
    (script = PARSERS /\ runs >= 2) => content = prev

\* a register function whose body is exactly three registration calls, one
\* per line, and nothing else in the file
RegistrationScenario(t) ==
    \E a, b, c \in {KW, SC, TC} :
        t = <<REGSIG, SP, LB, NL, IND, a, NL, IND, b, NL, IND, c, NL, RB, NL>>

DropIndent(t) == SelectSeq(t, LAMBDA a : a \notin {SP, IND})

\* C5: from a register function of exactly three registration calls,
\* refactor_content returns the function with the calls removed and the
\* marker comment exactly once, as the first line of the body.
C5_RegistrationCleanup ==
    (script = PARSERS /\ runs = 1 /\ RegistrationScenario(input)) =>
        /\ ~HasAny(content, RegTokensAtoms)
        /\ Count(content, MARK) = 1
        /\ DropIndent(content) = <<REGSIG, LB, NL, MARK, NL, RB, NL>>

\* C6: for an input with the Token import line, the output of
\* refactor_content keeps the import exactly when the output still refers
\* to the Token type.
C6_DeadImport ==
    (script = PARSERS /\ runs = 1 /\ Has(input, IMPORT)) =>
        (Has(content, IMPORT) <=> HasAny(content, TokenRefAtoms))

\* C7: from a file without the marker, no number of runs of the per-file
\* pass (refactor_parsers.py or refactor_to_lexeme.py) leaves the marker
\* comment in the file more than once.
C7_MarkerOnce ==
    (script \in {PARSERS, LEXEME} /\ ~Has(input, MARK)) => Count(content, MARK) <= 1

\* the part of C7 that is about refactor_parsers.py alone
C7_MarkerOnceParsers ==
    (script = PARSERS /\ ~Has(input, MARK)) => Count(content, MARK) <= 1

----------------------------------------------------------------------------
(* Claims at the driver level                                              *)

\* the path has a segment named exactly "examples"
HasExamplesSegment(f) == \E i \in 1..Len(f) : f[i] = <<"examples">>

\* the file lies under a directory named exactly "examples"
UnderExamplesDir(f) == \E i \in 1..(Len(f) - 1) : f[i] = <<"examples">>

InModuleList(f) ==
    \E k \in 1..Len(ModuleList(script)) : f[1] = ModuleRoot(ModuleList(script)[k])

IsRs(f) == f[Len(f)][Len(f[Len(f)])] = ".rs"

\* C2 as stated: a file handed to process_file is overwritten exactly when
\* the transformed text differs from the text read, and is reported as
\* changed (and counted in changed_count) exactly when it was overwritten.
C2_ExactChangeDetection ==
    /\ \A f \in trace.handed :
        /\ f \in DOMAIN trace.wrote <=>
              (f \in DOMAIN trace.seen
               /\ Transform(script, trace.seen[f]) # trace.seen[f])
        /\ f \in trace.reported <=> f \in DOMAIN trace.wrote
    /\ script # LEXEME => changed_count = Cardinality(trace.reported)

\* C2 as amended: the file is overwritten exactly when the transformed text
\* differs from the text read and the write does not fail; what is written
\* is the transformed text; the file is reported as changed (and counted in
\* changed_count) exactly when it was overwritten; a file whose transformed
\* text equals the text read is never written by process_file.
C2_ChangeDetectionUnlessWriteFails ==
    /\ \A f \in trace.handed :
        /\ f \in DOMAIN trace.wrote <=>
              (/\ f \in DOMAIN trace.seen
               /\ Transform(script, trace.seen[f]) # trace.seen[f]
               /\ disk.files[f].mode # "r")
        /\ f \in DOMAIN trace.wrote =>
              (/\ trace.wrote[f] = Transform(script, trace.seen[f])
               /\ disk.files[f].text = trace.wrote[f])
        /\ f \in trace.reported <=> f \in DOMAIN trace.wrote
    /\ script # LEXEME => changed_count = Cardinality(trace.reported)

\* the run is over, one handed file was rewritten and another was read and
\* left alone
C2_Witness ==
    /\ pc = "done"
    /\ \E f \in trace.handed : f \in DOMAIN trace.wrote
    /\ \E f \in trace.handed : f \in DOMAIN trace.seen /\ f \notin DOMAIN trace.wrote

\* C3: a file with a path segment named "examples", at any depth, is never
\* read, transformed, written or counted in the examined total.
C3_ExamplesExcluded ==
    /\ \A f \in DOMAIN disk.files :
        HasExamplesSegment(f) =>
            /\ f \notin trace.reads
            /\ f \notin trace.writes
            /\ f \notin DOMAIN trace.seen
            /\ f \notin trace.counted
    /\ script # LEXEME => total_count = Cardinality(trace.counted)

\* the run is over, the tree holds a file two levels down in an examples
\* directory, and another file of the same module was processed
C3_Witness ==
    /\ pc = "done"
    /\ \E f \in DOMAIN disk.files : Len(f) = 4 /\ f[3] = <<"examples">>
    /\ trace.reads # {}

\* C4: a failing read or write of one file (the dispatch file included)
\* never ends the batch: the failing file is counted but not reported as
\* changed, and every other eligible file is still processed.
C4_FaultIsolation ==
    /\ pc # "raised"
    /\ \A f \in trace.failed : f \notin trace.reported
    /\ pc = "done" =>
        \A f \in DOMAIN disk.files :
            (InModuleList(f) /\ IsRs(f) /\ ~str_has_examples(f)) => f \in trace.handed

\* the part of C4 that is about the two scripts that catch the exception
C4_FaultIsolationCounting ==
    script # LEXEME =>
        /\ pc # "raised"
        /\ \A f \in trace.failed : f \in trace.counted /\ f \notin trace.reported
        /\ pc = "done" =>
            /\ trace.summary
            /\ \A f \in DOMAIN disk.files :
                (InModuleList(f) /\ IsRs(f) /\ ~str_has_examples(f)) => f \in trace.handed

\* C8: at the end of a run of refactor_parsers.py or
\* refactor_parsers_phase2.py, the files handed to process_file and counted
\* are exactly the .rs files of the listed modules that do not lie under a
\* directory named "examples", each once.
C8_EnumerationComplete ==
    (script # LEXEME /\ pc = "done") =>
        LET eligible == {f \in DOMAIN disk.files :
                            InModuleList(f) /\ IsRs(f) /\ ~UnderExamplesDir(f)}
        IN  /\ trace.handed = eligible
            /\ trace.counted = eligible
            /\ total_count = Cardinality(eligible)

----------------------------------------------------------------------------
(* Claims at the dispatcher level                                          *)

DispatchFile == DispatcherPath(Head(langs))

\* the positions where the anchor pattern matches
AnchorsOf(t) == {i \in 1..Len(t) : DispatcherAnchorEnd(t, i) # 0}

\* C9: update_dispatcher on a dispatch file without the anchor writes
\* nothing, reports nothing and leaves the text as it was; on a missing
\* dispatch file it creates nothing.
C9_MissingAnchorNoOp ==
    pc = "dispatched" =>
        /\ (DispatchFile \in DOMAIN disk.files /\ AnchorsOf(input) = {}) =>
              /\ disk.files[DispatchFile].text = input
              /\ DispatchFile \notin trace.writes
              /\ Head(langs) \notin trace.dispatched
        /\ input = <<>> /\ trace.reads = {} => DOMAIN disk.files = {}

\* the block as the claim describes it: the two comment lines, the opening
\* of the call, one line per element of the module's table in the table's
\* order, the closing and a blank line
RECURSIVE EntryLines(_)
EntryLines(lexemes) ==
    IF lexemes = <<>> THEN <<>>
    ELSE <<IND, IND, DQ, Head(lexemes), DQ, COMMA, NL>> \o EntryLines(Tail(lexemes))

ExpectedBlock(lang) ==
    <<IND, BLOCK_CMT1, NL, IND, BLOCK_CMT2, NL, IND, SET_OPEN, NL>>
        \o EntryLines(LANG_LEXEMES[lang]) \o <<IND, SET_CLOSE, NL, NL>>

\* the newline that ends the line the anchor at i is on
AnchorLineEnd(t, i) == CHOOSE k \in (i + 1)..Len(t) : t[k] = NL /\ \A j \in (i + 1)..(k - 1) : t[j] # NL

\* the last newline of the blank lines that follow the anchor at i
BlankLinesEnd(t, i) ==
    CHOOSE k \in (i + 1)..Len(t) :
        /\ t[k] = NL
        /\ \A j \in (i + 1)..k : IsSpace(t[j])
        /\ \A j \in (k + 1)..Len(t) : (\A m \in (k + 1)..j : IsSpace(t[m])) => t[j] # NL

\* C10 as stated: the block sits immediately after the anchor line and
\* lists the module's lexemes in the table's order.
C10_BlockAfterAnchorLine ==
    (pc = "dispatched" /\ AnchorsOf(input) # {}) =>
        disk.files[DispatchFile].text =
            InsertAfter(input, {AnchorLineEnd(input, i) : i \in AnchorsOf(input)},
                        ExpectedBlock(Head(langs)))

\* C10 as amended: the block sits after the anchor line and the blank lines
\* that directly follow it, before the first non-blank line of the body, and
\* lists the module's lexemes in the table's order, one per table element.
C10_BlockAfterAnchorAndBlankLines ==
    (pc = "dispatched" /\ AnchorsOf(input) # {}) =>
        disk.files[DispatchFile].text =
            InsertAfter(input, {BlankLinesEnd(input, i) : i \in AnchorsOf(input)},
                        ExpectedBlock(Head(langs)))

\* a dispatch file whose anchor line is followed by a blank line and a body
\* has been augmented
C10_Witness ==
    /\ pc = "dispatched"
    /\ \E i \in AnchorsOf(input) :
        /\ i + 3 <= Len(input)
        /\ input[i + 2] = NL
        /\ input[i + 3] = IND
    /\ Head(langs) \in trace.dispatched

====
